---- MODULE Spec2Model ----
(***************************************************************************)
(* State-machine model of pyEPR's ProjectInfo (src/pyEPR/project_info.py): *)
(* the session that connects to Ansys (project -> design -> setup), its    *)
(* disconnect, and the dissipative configuration object.                   *)
(*                                                                         *)
(* The Ansys side (pyEPR.ansys: load_ansys_project, HfssProject,           *)
(* HfssDesign, HfssSetup, release) is not part of the modelled file; it is *)
(* represented by the record hfss, a double that answers the calls         *)
(* ProjectInfo makes.  A Python method is an operator from an execution    *)
(* context [s, d, j, p, t, calls, exc, ret] (session fields, dissipative   *)
(* config, junctions, ports, tool state, external and logger calls made,   *)
(* pending exception, return value) to the context after it;               *)
(* an action applies one public method to the current state.               *)
(***************************************************************************)
EXTENDS Integers, Sequences, FiniteSets, TLC

VARIABLES
    pinfo,        \* the ProjectInfo instance's connection fields
    dissipative,  \* the _Dissipative instance: back-reference and four slots
    hfss,         \* the external tool (double)
    calls,        \* external calls made by the last operation, in order
    last,         \* the last operation: name, arguments, exception raised, return value
    before,       \* the connection fields as the last operation found them
    junctions,    \* self.junctions: the registered junctions, in registration order
    ports         \* self.ports: the registered ports, in registration order

vars == <<pinfo, dissipative, hfss, calls, last, before, junctions, ports>>

-----------------------------------------------------------------------------
(* Bounds of the model *)

\* number of designs the tool may hold in its project
NumDesigns == 2
\* number of setups design D1 may hold before any default creation
NumSetups == 2

-----------------------------------------------------------------------------
(* Names.  Python's None is the string "None".  The tool resolves a user's *)
(* spelling of a name to the canonical name its handle reports.            *)

Null == "None"

AllDesigns == <<"D1", "D2", "D3">>
AllSetups == <<"S2", "S1", "S3">>
Spelled == <<"proj", "d1", "d2", "d3", "s1", "s2", "s3">>
Canonical == <<"Proj", "D1", "D2", "D3", "S1", "S2", "S3">>

KnownDesigns == {AllDesigns[i] : i \in 1..NumDesigns}

\* the name a handle reports for a requested name
Canon(n) ==
    IF \E i \in 1..Len(Spelled) : Spelled[i] = n
    THEN Canonical[CHOOSE i \in 1..Len(Spelled) : Spelled[i] = n]
    ELSE n

\* the first k entries of a sequence
Prefix(q, k) == [i \in 1..k |-> q[i]]

SolutionTypes == {"Eigenmode", "DrivenModal", "DrivenTerminal", "Q3D", "Transient"}

\* how the tool reports a name it cannot resolve: by raising, or by a null handle
MissingModes == {"raise", "null"}

DefaultSetupName == "Setup"
ToolProjectName == "Proj"
ToolProjectPath == "C:/sim"

ObjectGroups == <<"Non Model", "Solids", "Unclassified", "Sheets", "Lines">>

-----------------------------------------------------------------------------
(* Exceptions *)

Err(type, msg, names) == [type |-> type, msg |-> msg, names |-> names]
NoExc == Err("none", "", {})

\* None has no such attribute / method
AttributeError == Err("AttributeError", "NoneType has no attribute", {})
\* iteration over None
TypeError == Err("TypeError", "NoneType is not iterable", {})
\* the tool's own failure for a name it does not know; it names what was asked
LookupError(n) == Err("EnvironmentError", "not found", {n})
\* project_info.py:307-309: the message is a fixed hint
DesignError == Err("Exception", "Did you provide the correct design name? Failed to pull up design.", {})
\* project_info.py:349-351
SetupError == Err("Exception", "Did you provide the correct setup name? Failed to pull up setup.", {})
\* project_info.py:438-440
AssertionError == Err("AssertionError", "It does not appear that you have connected to HFSS yet.", {})

Raise(c, e) == [c EXCEPT !.exc = e]
Call(c, name) == [c EXCEPT !.calls = Append(@, name)]

-----------------------------------------------------------------------------
(* The external tool, as ProjectInfo sees it *)

\* ansys.load_ansys_project(project_name, project_path)
load_ansys_project(t, project_name, project_path) ==
    [app |-> "app", desktop |-> "desktop",
     project |-> IF t.open /\ (project_name = Null \/ Canon(project_name) = ToolProjectName)
                 THEN ToolProjectName ELSE Null]

\* <handle>.name
HandleName(h) == h

\* project.get_designs()
get_designs(t) == t.designs

\* project.get_active_design(): Null when the tool has no active design
get_active_design(t) == t.active

\* project.get_design(name): Null when the tool cannot resolve the name
get_design(t, name) == IF Canon(name) \in t.designs THEN Canon(name) ELSE Null

\* design.get_setup_names()
get_setup_names(t, design) == t.setups[design]

\* design.get_setup(name): Null when the design cannot resolve the name
design_get_setup(t, design, name) ==
    IF \E i \in 1..Len(t.setups[design]) : t.setups[design][i] = Canon(name)
    THEN Canon(name) ELSE Null

\* design.create_em_setup() and its three siblings: the design gains a default setup
create_setup(t, design) == [t EXCEPT !.setups[design] = Append(@, DefaultSetupName)]

\* project.release(); desktop.release(); app.release(); ansys.release()
\* the four releases with the process-wide binding released first
ReleaseAll_binding_first(c) ==
    [c EXCEPT !.calls = @ \o <<"ansys.release", "project.release", "desktop.release",
                                "app.release">>,
              !.t.bound = FALSE]

ReleaseAll(c) ==
    [c EXCEPT !.calls = @ \o <<"project.release", "desktop.release",
                                "app.release", "ansys.release">>,
              !.t.bound = FALSE]

\* design.modeler.get_objects_in_group(group)
get_objects_in_group(t, group) == t.objects[group]

\* project.get_variable_names(), design.get_variable_names()
project_get_variable_names(t) == t.variables.project
design_get_variable_names(t) == t.variables.design

-----------------------------------------------------------------------------
(* ProjectInfo: connection methods *)

\* ProjectInfo.check_connected
check_connected(s) ==
    /\ s.setup # Null
    /\ s.design # Null
    /\ s.project # Null
    /\ s.desktop # Null
    /\ s.app # Null

\* ProjectInfo.connect_project
connect_project(c) ==
    LET h == load_ansys_project(c.t, c.s.project_name, c.s.project_path)
        c1 == [c EXCEPT !.s.app = h.app, !.s.desktop = h.desktop,
                        !.s.project = h.project, !.t.bound = TRUE]
    IN  IF c1.s.project # Null
        THEN [c1 EXCEPT !.s.project_name = HandleName(c1.s.project),
                        !.s.project_path = ToolProjectPath]
        ELSE c1

\* ProjectInfo.connect_design, the branch for design_name is None (lines 279-294):
\* any failure to adopt the active design is caught and degrades to no design
connect_design_active(c) ==
    LET d == get_active_design(c.t)
    IN  IF d # Null
        THEN [c EXCEPT !.s.design = d, !.s.design_name = HandleName(d)]
        ELSE [c EXCEPT !.s.design = Null, !.s.design_name = Null]

\* connect_design_named that treats a failed lookup as the active-design branch
\* does: no design, no error
connect_design_named_soft(c, m) ==
    LET d == get_design(c.t, c.s.design_name)
    IN  IF d # Null
        THEN [c EXCEPT !.s.design = d]
        ELSE [c EXCEPT !.s.design = Null]

\* ProjectInfo.connect_design, the branch for a design name in effect (lines 295-309).
\* When the tool answers an unknown name with a null handle, self.design is
\* assigned None and the log line's self.design.solution_type raises; when the
\* tool raises, self.design keeps its value.  Both end in the same raise.
connect_design_named(c, m) ==
    LET d == get_design(c.t, c.s.design_name)
    IN  IF d # Null
        THEN [c EXCEPT !.s.design = d]
        ELSE IF m = "null"
             THEN Raise([c EXCEPT !.s.design = Null], DesignError)
             ELSE Raise(c, DesignError)

\* connect_design without the early return of lines 273-277
connect_design_no_empty_check(c, design_name, m) ==
    LET c1 == IF design_name # Null
              THEN [c EXCEPT !.s.design_name = design_name]
              ELSE c
    IN  IF c1.s.project = Null
        THEN Raise(c1, AttributeError)
        ELSE IF c1.s.design_name = Null
             THEN connect_design_active(c1)
             ELSE connect_design_named(c1, m)

\* ProjectInfo.connect_design
connect_design(c, design_name, m) ==
    LET c1 == IF design_name # Null
              THEN [c EXCEPT !.s.design_name = design_name]
              ELSE c
    IN  IF c1.s.project = Null
        THEN Raise(c1, AttributeError)
        ELSE IF get_designs(c1.t) = {}
             THEN [c1 EXCEPT !.s.design = Null]
             ELSE IF c1.s.design_name = Null
                  THEN connect_design_active(c1)
                  ELSE connect_design_named(c1, m)

\* ProjectInfo.get_setup
get_setup(c, name, m) ==
    IF name = Null
    THEN [c EXCEPT !.ret = Null]
    ELSE IF c.s.design = Null
         THEN Raise(c, AttributeError)
         ELSE LET c1 == Call(c, "design.get_setup")
                  h == design_get_setup(c.t, c.s.design, name)
              IN  IF h # Null
                  THEN [c1 EXCEPT !.s.setup = h, !.s.setup_name = HandleName(h),
                                  !.ret = h]
                  ELSE IF m = "null"
                       \* self.setup = None; logger.error; self.setup.name raises
                       THEN Raise([c1 EXCEPT !.s.setup = Null], AttributeError)
                       ELSE Raise(c1, LookupError(name))

\* creation_call with the driven-terminal branch calling the driven-modal creation
creation_call_dt_as_dm(solution_type) ==
    CASE solution_type = "Eigenmode" -> "design.create_em_setup"
      [] solution_type = "DrivenModal" -> "design.create_dm_setup"
      [] solution_type = "DrivenTerminal" -> "design.create_dm_setup"
      [] solution_type = "Q3D" -> "design.create_q3d_setup"
      [] OTHER -> Null

\* the creation call matching a solution type (lines 325-336); Null when none matches
creation_call(solution_type) ==
    CASE solution_type = "Eigenmode" -> "design.create_em_setup"
      [] solution_type = "DrivenModal" -> "design.create_dm_setup"
      [] solution_type = "DrivenTerminal" -> "design.create_dt_setup"
      [] solution_type = "Q3D" -> "design.create_q3d_setup"
      [] OTHER -> Null

\* ProjectInfo.connect_setup, the branch for len(setup_names) == 0 (lines 322-337)
create_default_setup(c) ==
    LET call == creation_call(c.t.soltype[c.s.design])
        c1 == Call(c, "design.solution_type")
    IN  IF call # Null
        THEN [Call(c1, call) EXCEPT !.t = create_setup(c.t, c.s.design),
                                    !.s.setup_name = DefaultSetupName]
        \* setup = None; self.setup_name = setup.name raises
        ELSE Raise(c1, AttributeError)

\* connect_setup_try that adopts the last name of the list
connect_setup_try_last_name(c, m) ==
    LET c1 == Call(c, "design.get_setup_names")
        setup_names == get_setup_names(c.t, c.s.design)
        c2 == IF Len(setup_names) = 0
              THEN create_default_setup(c1)
              ELSE IF c1.s.setup_name = Null
                   THEN [c1 EXCEPT !.s.setup_name = setup_names[Len(setup_names)]]
                   ELSE c1
    IN  IF c2.exc # NoExc THEN c2 ELSE get_setup(c2, c2.s.setup_name, m)

\* ProjectInfo.connect_setup, the body of the try block (lines 320-343)
connect_setup_try(c, m) ==
    LET c1 == Call(c, "design.get_setup_names")
        setup_names == get_setup_names(c.t, c.s.design)
        c2 == IF Len(setup_names) = 0
              THEN create_default_setup(c1)
              ELSE IF c1.s.setup_name = Null
                   THEN [c1 EXCEPT !.s.setup_name = setup_names[1]]
                   ELSE c1
    IN  IF c2.exc # NoExc THEN c2 ELSE get_setup(c2, c2.s.setup_name, m)

\* connect_setup without the else branch of lines 352-355
connect_setup_no_clear(c, m) ==
    IF c.s.design # Null
    THEN LET c1 == connect_setup_try(c, m)
         IN  IF c1.exc # NoExc THEN Raise(c1, SetupError) ELSE [c1 EXCEPT !.ret = Null]
    ELSE c

\* ProjectInfo.connect_setup
connect_setup(c, m) ==
    IF c.s.design # Null
    THEN LET c1 == connect_setup_try(c, m)
         IN  IF c1.exc # NoExc THEN Raise(c1, SetupError) ELSE [c1 EXCEPT !.ret = Null]
    ELSE [c EXCEPT !.s.setup = Null, !.s.setup_name = Null]

\* lines 363-374 with an except block that releases the project only
connect_project_design_release_project(c, m) ==
    LET c1 == connect_project(c)
    IN  IF c1.s.project # Null
        THEN LET c2 == connect_design(c1, Null, m)
             IN  IF c2.exc # NoExc
                 THEN Call(Raise(c2, NoExc), "project.release")
                 ELSE c2
        ELSE c1

\* ProjectInfo.connect, lines 363-374: project, then design with teardown on failure
connect_project_design(c, m) ==
    LET c1 == connect_project(c)
    IN  IF c1.s.project # Null
        THEN LET c2 == connect_design(c1, Null, m)
             IN  IF c2.exc # NoExc
                 THEN ReleaseAll(Raise(c2, NoExc))
                 ELSE c2
        ELSE c1

\* connect_finalize without line 381: the design name is not refreshed
connect_finalize_stale_design(c) ==
    IF c.s.project # Null
    THEN [c EXCEPT !.s.project_name = HandleName(c.s.project)]
    ELSE c

\* ProjectInfo.connect, lines 377-381
connect_finalize(c) ==
    LET c1 == IF c.s.project # Null
              THEN [c EXCEPT !.s.project_name = HandleName(c.s.project)]
              ELSE c
    IN  IF c1.s.design # Null
        THEN [c1 EXCEPT !.s.design_name = HandleName(c1.s.design)]
        ELSE c1

\* connect that starts from empty junction and port tables
connect_fresh_tables(c, m) ==
    LET c1 == connect_project_design(c, m)
        c2 == connect_setup(c1, m)
    IN  IF c2.exc # NoExc
        THEN c2
        ELSE [connect_finalize(c2) EXCEPT !.ret = "self", !.j = << >>, !.p = << >>]

\* ProjectInfo.connect
connect(c, m) ==
    LET c1 == connect_project_design(c, m)
        c2 == connect_setup(c1, m)
    IN  IF c2.exc # NoExc
        THEN c2
        ELSE [connect_finalize(c2) EXCEPT !.ret = "self"]

\* disconnect whose precondition looks at the project handle only
disconnect_project_only(c) ==
    IF c.s.project = Null
    THEN Raise(c, AssertionError)
    ELSE ReleaseAll(c)

\* ProjectInfo.disconnect
disconnect(c) ==
    IF ~check_connected(c.s)
    THEN Raise(c, AssertionError)
    ELSE ReleaseAll(c)

-----------------------------------------------------------------------------
(* ProjectInfo: queries over the live model *)

\* ProjectInfo.get_all_object_names, on a session that has a design
get_all_object_names(t) ==
    get_objects_in_group(t, ObjectGroups[1]) \o get_objects_in_group(t, ObjectGroups[2])
    \o get_objects_in_group(t, ObjectGroups[3]) \o get_objects_in_group(t, ObjectGroups[4])
    \o get_objects_in_group(t, ObjectGroups[5])

-----------------------------------------------------------------------------
(* ProjectInfo._Dissipative *)

diss_opt == <<"dielectrics_bulk", "dielectric_surfaces", "resistive_surfaces", "seams">>
DissOpt == {diss_opt[i] : i \in 1..Len(diss_opt)}

\* A Python value offered to a slot: None, a list or a tuple of items, or an int.
\* An item is a string (an object name) or NonStr, a member that is not a string.
NonStr == "<int>"
NoneV == [kind |-> "none", items |-> << >>]
IntV == [kind |-> "int", items |-> << >>]
ListV(q) == [kind |-> "list", items |-> q]
TupleV(q) == [kind |-> "tuple", items |-> q]
\* the values the model offers: o1 is an object of the design, ox is not
Values ==
    {NoneV, IntV, ListV(<< >>), ListV(<<"o1">>), ListV(<<"o1", "ox">>),
     ListV(<<NonStr, "o1">>), TupleV(<<"o1">>)}

\* isinstance(value, (list, dict)) and all(isinstance(x, str) for x in value)
IsListOfStr(value) ==
    /\ value.kind = "list"
    /\ \A i \in 1..Len(value.items) : value.items[i] # NonStr

InSeq(x, q) == \E i \in 1..Len(q) : q[i] = x

\* the loop of lines 130-133 over a value that passed line 123
existence_check(c, key, value) ==
    IF value.kind = "none"
    THEN Raise(c, TypeError)
    ELSE IF Len(value.items) = 0
         THEN c
         ELSE IF c.s.design = Null
              THEN Raise(c, AttributeError)
              ELSE LET all == get_all_object_names(c.t)
                       bad == {i \in 1..Len(value.items) : ~InSeq(value.items[i], all)}
                   IN  IF bad = {}
                       THEN c
                       ELSE LET i == CHOOSE i \in bad : \A j \in bad : i <= j
                            IN  Raise(c, Err("ValueError", "is not an object in the HFSS project",
                                             {value.items[i]}))

\* super().__setattr__(key, value), line 134
store(c, key, value) == [c EXCEPT !.d[key] = value]

\* __setitem__ that stores the value before the existence check of lines 129-133
Dissipative_setitem_store_first(c, key, value) ==
    IF ~(key \in DissOpt \/ key = "pinfo")
    THEN Raise(c, Err("ValueError", "No such parameter", {key}))
    ELSE IF key # "pinfo" /\ ~IsListOfStr(value) /\ value # NoneV
         THEN Raise(c, Err("ValueError", "must be a list of strings", {key}))
         ELSE LET c0 == store(c, key, value)
              IN  IF key # "pinfo" /\ c.d.pinfo # Null
                  THEN existence_check(c0, key, value)
                  ELSE c0

\* ProjectInfo._Dissipative.__setitem__
Dissipative_setitem(c, key, value) ==
    IF ~(key \in DissOpt \/ key = "pinfo")
    THEN Raise(c, Err("ValueError", "No such parameter", {key}))
    ELSE IF key # "pinfo" /\ ~IsListOfStr(value) /\ value # NoneV
         THEN Raise(c, Err("ValueError", "must be a list of strings", {key}))
         ELSE LET c1 == IF key # "pinfo" /\ c.d.pinfo # Null
                        THEN existence_check(c, key, value)
                        ELSE c
              IN  IF c1.exc # NoExc THEN c1 ELSE store(c1, key, value)

\* ProjectInfo._Dissipative.__getitem__
Dissipative_getitem(c, attr) ==
    IF ~(attr \in DissOpt \/ attr = "pinfo")
    THEN Raise(c, Err("AttributeError", "dissipative has no attribute", {attr}))
    ELSE [c EXCEPT !.ret = c.d[attr]]

DeprecationWarning == "logger.warning: DEPRECATED!! use pinfo.dissipative[...]"

\* __setattr__ that sets the attribute itself, past __setitem__ and its checks
Dissipative_setattr_direct(c, attr, value) ==
    store(Call(c, DeprecationWarning), attr, value)

\* ProjectInfo._Dissipative.__setattr__
Dissipative_setattr(c, attr, value) ==
    Dissipative_setitem(Call(c, DeprecationWarning), attr, value)

-----------------------------------------------------------------------------
(* Junction and port tables: Dict objects filled by the user, in insertion order.
   An entry is [name, data], data being the inner dict. *)

Entry(name, data) == [name |-> name, data |-> data]

IndexOf(table, name) ==
    IF \E i \in 1..Len(table) : table[i].name = name
    THEN CHOOSE i \in 1..Len(table) : table[i].name = name
    ELSE 0

\* table[name] = data: a new key goes last, a known key keeps its place
Dict_setitem(table, name, data) ==
    IF IndexOf(table, name) = 0
    THEN Append(table, Entry(name, data))
    ELSE [table EXCEPT ![IndexOf(table, name)] = Entry(name, data)]

\* ProjectInfo.get_all_variables_names
get_all_variables_names(t) ==
    project_get_variable_names(t) \o design_get_variable_names(t)

\* the first assert of the loop body that fails for junction jj, Null when none
failing_field(jj, all_variables_names, all_object_names) ==
    IF ~InSeq(jj["Lj_variable"], all_variables_names) THEN "Lj_variable"
    ELSE IF ~InSeq(jj["rect"], all_object_names) THEN "rect"
    ELSE IF ~InSeq(jj["line"], all_object_names) THEN "line"
    ELSE Null

JunctionError(jjnm, field, value) ==
    Err("AssertionError",
        "Seems like for junction ... you specified a ... that does not exist in HFSS by the name: ...",
        {jjnm, field, value})

\* loop that goes on after a failed assert and reports the last failure
RECURSIVE validate_loop_last(_, _, _, _)
validate_loop_last(c, i, all_variables_names, all_object_names) ==
    IF i > Len(c.j)
    THEN c
    ELSE LET jj == c.j[i].data
             f == failing_field(jj, all_variables_names, all_object_names)
             n == validate_loop_last(c, i + 1, all_variables_names, all_object_names)
         IN  IF f = Null \/ n.exc # NoExc
             THEN n
             ELSE Raise(c, JunctionError(c.j[i].name, f, jj[f]))

\* for jjnm, jj in self.junctions.items(), lines 481-494
RECURSIVE validate_loop(_, _, _, _)
validate_loop(c, i, all_variables_names, all_object_names) ==
    IF i > Len(c.j)
    THEN c
    ELSE LET jj == c.j[i].data
             f == failing_field(jj, all_variables_names, all_object_names)
         IN  IF f = Null
             THEN validate_loop(c, i + 1, all_variables_names, all_object_names)
             ELSE Raise(c, JunctionError(c.j[i].name, f, jj[f]))

\* ProjectInfo.validate_junction_info
validate_junction_info(c) ==
    IF c.s.project = Null \/ c.s.design = Null
    THEN Raise(c, AttributeError)
    ELSE validate_loop(c, 1, get_all_variables_names(c.t), get_all_object_names(c.t))

\* the labels of the inner dicts
RECURSIVE InnerKeys(_)
InnerKeys(table) ==
    IF table = << >> THEN {} ELSE DOMAIN table[1].data \cup InnerKeys(Tail(table))

OuterKeys(table) == {table[i].name : i \in 1..Len(table)}

Missing == "NaN"

\* a frame whose rows are the entries and whose columns are their fields
DataFrame_by_rows(table) ==
    [index   |-> OuterKeys(table),
     columns |-> InnerKeys(table),
     at      |-> [rc \in OuterKeys(table) \X InnerKeys(table) |->
                     LET data == table[IndexOf(table, rc[1])].data
                     IN  IF rc[2] \in DOMAIN data THEN data[rc[2]] ELSE Missing]]

\* pd.DataFrame(d) for a dict of dicts: the outer keys label the columns, the
\* inner keys label the rows, a cell without a value is NaN
DataFrame(table) ==
    [index   |-> InnerKeys(table),
     columns |-> OuterKeys(table),
     at      |-> [rc \in InnerKeys(table) \X OuterKeys(table) |->
                     LET data == table[IndexOf(table, rc[2])].data
                     IN  IF rc[1] \in DOMAIN data THEN data[rc[1]] ELSE Missing]]

\* ProjectInfo._Dissipative.data
Dissipative_data(c) == [opt \in DissOpt |-> Dissipative_getitem(c, opt).ret]

\* ProjectInfo.save (the series of scalar fields and of options are left out)
save(c) ==
    [c EXCEPT !.ret = [dissip    |-> Dissipative_data(c),
                       junctions |-> DataFrame(c.j),
                       ports     |-> DataFrame(c.p)]]

-----------------------------------------------------------------------------
(* Construction *)

\* ProjectInfo._Dissipative.__init__
Dissipative_init ==
    [pinfo |-> Null, dielectrics_bulk |-> NoneV, dielectric_surfaces |-> NoneV,
     resistive_surfaces |-> NoneV, seams |-> NoneV]

\* ProjectInfo.__init__, lines 201-223
Fresh(project_name, design_name, setup_name) ==
    [project_path |-> Null, project_name |-> project_name,
     design_name |-> design_name, setup_name |-> setup_name,
     app |-> Null, desktop |-> Null, project |-> Null, design |-> Null, setup |-> Null]

\* ProjectInfo.__init__, lines 213-215: the four keyword arguments go through
\* __setitem__ in the order of diss_opt; the first that raises ends construction
init_dissipative(c, slots) ==
    LET c1 == Dissipative_setitem(c, diss_opt[1], slots[diss_opt[1]])
        c2 == IF c1.exc # NoExc THEN c1
              ELSE Dissipative_setitem(c1, diss_opt[2], slots[diss_opt[2]])
        c3 == IF c2.exc # NoExc THEN c2
              ELSE Dissipative_setitem(c2, diss_opt[3], slots[diss_opt[3]])
    IN  IF c3.exc # NoExc THEN c3
        ELSE Dissipative_setitem(c3, diss_opt[4], slots[diss_opt[4]])

\* ProjectInfo.__init__ with its dissipative keyword arguments: the context after
\* construction (exc set when it raises)
ProjectInfo_init_slots(t, project_name, design_name, setup_name, slots, do_connect, m) ==
    LET c0 == [s |-> Fresh(project_name, design_name, setup_name), d |-> Dissipative_init,
               j |-> << >>, p |-> << >>,
               t |-> t, calls |-> << >>, exc |-> NoExc, ret |-> Null]
        c == init_dissipative(c0, slots)
    IN  IF c.exc # NoExc
        THEN c
        ELSE IF do_connect
             THEN LET c1 == connect(c, m)
                  IN  IF c1.exc # NoExc THEN c1
                      ELSE Dissipative_setitem([c1 EXCEPT !.ret = Null], "pinfo", "self")
             ELSE c

\* the dissipative keyword arguments left at their default, None
NoSlots == [k \in DissOpt |-> NoneV]

\* ProjectInfo.__init__ without dissipative keyword arguments
ProjectInfo_init(t, project_name, design_name, setup_name, do_connect, m) ==
    ProjectInfo_init_slots(t, project_name, design_name, setup_name, NoSlots, do_connect, m)

-----------------------------------------------------------------------------
(* The state machine *)

ProjectRequests == {Null, "proj"}
DesignRequests == {Null, "d1", "dx"}
SetupRequests == {Null, "s1", "sx"}

Objects ==
    [g \in {ObjectGroups[i] : i \in 1..Len(ObjectGroups)} |->
        IF g = "Solids" THEN <<"o1">> ELSE IF g = "Sheets" THEN <<"o2">> ELSE << >>]

\* project-scope names start with a dollar sign in the tool
Variables == [project |-> <<"$Lj">>, design |-> <<"Lj1">>]

\* the tool's possible configurations: the first k designs, D1 with the first n
\* setups, any active design or none.  D1's solution type is read only when D1
\* has no setup, so it varies only there.
Tools ==
    {[open |-> o, bound |-> FALSE,
      designs |-> {AllDesigns[i] : i \in 1..k}, active |-> a,
      setups |-> [d \in KnownDesigns |-> IF d = "D1" THEN Prefix(AllSetups, n) ELSE <<"S1">>],
      soltype |-> [d \in KnownDesigns |-> IF d = "D1" THEN st ELSE "DrivenModal"],
      objects |-> Objects, variables |-> Variables] :
        o \in BOOLEAN, k \in 0..NumDesigns, a \in KnownDesigns \cup {Null},
        n \in 0..NumSetups, st \in SolutionTypes}

ValidTool(t) ==
    /\ t.active \in t.designs \cup {Null}
    /\ Len(t.setups["D1"]) > 0 => t.soltype["D1"] = "Eigenmode"
    /\ t.designs = {} => Len(t.setups["D1"]) = NumSetups

Start == [s |-> pinfo, d |-> dissipative, j |-> junctions, p |-> ports,
          t |-> hfss, calls |-> << >>, exc |-> NoExc, ret |-> Null]

\* the state after a method ran to its end or raised
StepV(op, arg, val, c) ==
    /\ pinfo' = c.s
    /\ dissipative' = c.d
    /\ hfss' = c.t
    /\ calls' = c.calls
    /\ last' = [op |-> op, arg |-> arg, val |-> val, exc |-> c.exc, ret |-> c.ret]
    /\ before' = pinfo
    /\ junctions' = c.j
    /\ ports' = c.p

Step(op, arg, c) == StepV(op, arg, NoneV, c)

NoArg == <<Null>>

Constructed(c) ==
    /\ c.exc = NoExc
    /\ pinfo = c.s
    /\ dissipative = c.d
    /\ hfss = c.t
    /\ calls = c.calls
    /\ last = [op |-> "init", arg |-> NoArg, val |-> NoneV, exc |-> NoExc, ret |-> Null]
    /\ before = c.s
    /\ junctions = c.j
    /\ ports = c.p

Init ==
    \E t \in Tools, pn \in ProjectRequests, dn \in DesignRequests, sn \in SetupRequests,
       m \in MissingModes :
        /\ ValidTool(t)
        /\ Constructed(ProjectInfo_init(t, pn, dn, sn, FALSE, m))

Connect == \E m \in MissingModes : Step("connect", NoArg, connect(Start, m))

ConnectProject == Step("connect_project", NoArg, connect_project(Start))

ConnectDesign ==
    \E design_name \in DesignRequests, m \in MissingModes :
        Step("connect_design", <<design_name>>, connect_design(Start, design_name, m))

ConnectSetup == \E m \in MissingModes : Step("connect_setup", NoArg, connect_setup(Start, m))

GetSetup ==
    \E name \in SetupRequests, m \in MissingModes :
        Step("get_setup", <<name>>, get_setup(Start, name, m))

Disconnect == Step("disconnect", NoArg, disconnect(Start))

\* the user opens or closes the project in the tool
ToolOpenClose ==
    /\ hfss' = [hfss EXCEPT !.open = ~@]
    /\ calls' = << >>
    /\ last' = [op |-> "tool", arg |-> NoArg, val |-> NoneV, exc |-> NoExc, ret |-> Null]
    /\ before' = pinfo
    /\ UNCHANGED <<pinfo, dissipative, junctions, ports>>

Next ==
    \/ Connect
    \/ ConnectProject
    \/ ConnectDesign
    \/ ConnectSetup
    \/ GetSetup
    \/ Disconnect
    \/ ToolOpenClose

Spec == Init /\ [][Next]_vars

\* Sessions driven by connect(), connect_design(name) and disconnect() alone, the
\* tool left as it is.
NextTeardown ==
    \/ Connect
    \/ ConnectDesign
    \/ Disconnect

SpecTeardown == Init /\ [][NextTeardown]_vars

-----------------------------------------------------------------------------
(* The dissipative configuration, on a session built with or without connect *)

\* the keys a script may write: the four slots, the back-reference, and a stranger
Keys == DissOpt \cup {"bogus"}

\* one tool: project open or not, design D1 active with setups S2, S1
DissTools ==
    {t \in Tools : ValidTool(t) /\ t.designs = {"D1"} /\ t.active = "D1"
                   /\ t.setups["D1"] = <<"S2", "S1">>}

InitDiss ==
    \E t \in DissTools, do_connect \in BOOLEAN, m \in MissingModes :
        Constructed(ProjectInfo_init(t, Null, Null, Null, do_connect, m))

\* pinfo.dissipative[key] = value
SetItem ==
    \E key \in Keys, value \in Values :
        StepV("setitem", <<key>>, value, Dissipative_setitem(Start, key, value))

\* pinfo.dissipative['pinfo'] = pinfo, or = None
SetPinfo ==
    \E owner \in {Null, "self"} :
        Step("setitem", <<"pinfo", owner>>, Dissipative_setitem(Start, "pinfo", owner))

\* pinfo.dissipative.<attr> = value, the deprecated path
SetAttr ==
    \E attr \in Keys, value \in Values :
        StepV("setattr", <<attr>>, value, Dissipative_setattr(Start, attr, value))

NextDiss ==
    \/ SetItem
    \/ SetPinfo
    \/ Connect

SpecDiss == InitDiss /\ [][NextDiss]_vars

\* The deprecated attribute path, on the same sessions.
NextAttr ==
    \/ SetAttr
    \/ SetPinfo
    \/ Connect

SpecAttr == InitDiss /\ [][NextAttr]_vars

-----------------------------------------------------------------------------
(* Junction and port registration, validation and serialization *)

JunctionNames == {"j1", "j2"}
JunctionSpecs == [Lj_variable : {"Lj1", "$Lj", "Lx"}, rect : {"o1", "ox"}, line : {"o2", "ox"}]
PortNames == {"p1"}
PortSpecs == [rect : {"o1"}, R : {"50"}, line : {"o2"}]

\* the model after the user deleted the sheet o2, the project after the user
\* deleted its variable
ObjectsEdited == [Objects EXCEPT !["Sheets"] = << >>]
VariablesEdited == [Variables EXCEPT !.project = << >>]

\* pinfo.junctions[name] = {'Lj_variable': ..., 'rect': ..., 'line': ...}
RegisterJunction ==
    \E name \in JunctionNames, jj \in JunctionSpecs :
        Step("junctions.setitem", <<name>>, [Start EXCEPT !.j = Dict_setitem(@, name, jj)])

\* pinfo.ports[name] = {'rect': ..., 'R': ..., 'line': ...}
RegisterPort ==
    \E name \in PortNames, port \in PortSpecs :
        Step("ports.setitem", <<name>>, [Start EXCEPT !.p = Dict_setitem(@, name, port)])

\* pinfo.validate_junction_info()
ValidateJunctionInfo ==
    Step("validate_junction_info", NoArg, validate_junction_info(Start))

\* pinfo.save()
Save ==
    Step("save", NoArg, save(Start))

\* the user edits the model in the tool
ToolEdit ==
    /\ \E o \in {Objects, ObjectsEdited}, v \in {Variables, VariablesEdited} :
          /\ hfss' = [hfss EXCEPT !.objects = o, !.variables = v]
          /\ hfss' # hfss
    /\ calls' = << >>
    /\ last' = [op |-> "tool", arg |-> NoArg, val |-> NoneV, exc |-> NoExc, ret |-> Null]
    /\ before' = pinfo
    /\ UNCHANGED <<pinfo, dissipative, junctions, ports>>

NextJunc ==
    \/ RegisterJunction
    \/ RegisterPort
    \/ ValidateJunctionInfo
    \/ Save
    \/ ToolEdit

SpecJunc == InitDiss /\ [][NextJunc]_vars

-----------------------------------------------------------------------------
(* The connection lifecycle of a session that carries user metadata *)

MetaJunctions ==
    {<< >>, <<Entry("j1", [Lj_variable |-> "Lj1", rect |-> "o1", line |-> "o2"])>>}
MetaPorts ==
    {<< >>, <<Entry("p1", [rect |-> "o1", R |-> "50", line |-> "o2"])>>}
MetaSlots ==
    {NoSlots, [NoSlots EXCEPT !["seams"] = ListV(<<"o1">>)]}

\* pinfo = ProjectInfo(seams=..., do_connect=False), then the user fills the
\* junction and port tables
InitMeta ==
    \E t \in DissTools, slots \in MetaSlots, j \in MetaJunctions, p \in MetaPorts,
       m \in MissingModes :
        LET c == ProjectInfo_init_slots(t, Null, Null, Null, slots, FALSE, m)
        IN  Constructed([c EXCEPT !.j = j, !.p = p])

SpecMeta == InitMeta /\ [][Next]_vars

-----------------------------------------------------------------------------
(* Properties *)

ReleaseCalls == {"project.release", "desktop.release", "app.release", "ansys.release"}
CreationCalls == {"design.create_em_setup", "design.create_dm_setup",
                  "design.create_dt_setup", "design.create_q3d_setup"}
DesignCalls == CreationCalls \cup {"design.get_setup_names", "design.get_setup",
                                   "design.solution_type"}
Made(S) == SelectSeq(calls, LAMBDA x : x \in S)

\* the project, design and setup a session asks for all exist in the tool
RequestValid(s, t) ==
    /\ load_ansys_project(t, s.project_name, s.project_path).project # Null
    /\ s.design_name # Null
    /\ get_design(t, s.design_name) # Null
    /\ s.setup_name # Null
    /\ design_get_setup(t, get_design(t, s.design_name), s.setup_name) # Null

\* C1: connect() on a session that never connected, asking for a project, a design
\* and a setup that exist, returns with check_connected() true, holding the handles
\* the tool resolves for the three names, and the three name fields equal the
\* names those handles report.
C1_ConnectValid ==
    [][(last'.op = "connect" /\ pinfo.app = Null /\ RequestValid(pinfo, hfss)) =>
          /\ last'.exc = NoExc
          /\ check_connected(pinfo')
          /\ pinfo'.project = ToolProjectName
          /\ pinfo'.design = get_design(hfss, pinfo.design_name)
          /\ pinfo'.setup = design_get_setup(hfss, pinfo'.design, pinfo.setup_name)
          /\ pinfo'.project_name = HandleName(pinfo'.project)
          /\ pinfo'.design_name = HandleName(pinfo'.design)
          /\ pinfo'.setup_name = HandleName(pinfo'.setup)]_vars

\* a first connect() asked for proj, d1, s1 and came back connected to Proj, D1, S1
C1_Witness ==
    /\ last.op = "connect"
    /\ before.app = Null
    /\ before.project_name = "proj" /\ before.design_name = "d1" /\ before.setup_name = "s1"
    /\ RequestValid(before, hfss)
    /\ check_connected(pinfo)
    /\ pinfo.project_name = "Proj" /\ pinfo.design_name = "D1" /\ pinfo.setup_name = "S1"

\* C2: in every state reached by a disconnect() that returns normally,
\* check_connected() is false (so that a second disconnect() right after it
\* would fail its precondition).
C2_DisconnectClears ==
    (last.op = "disconnect" /\ last.exc = NoExc) => ~check_connected(pinfo)

\* C3: disconnect() on a session whose check_connected() is false raises the
\* precondition error, makes no release call and changes no field of the session,
\* of the dissipative config or of the tool.
C3_DisconnectPrecondition ==
    [][(last'.op = "disconnect" /\ ~check_connected(pinfo)) =>
          /\ last'.exc = AssertionError
          /\ Made(ReleaseCalls)' = << >>
          /\ pinfo' = pinfo
          /\ dissipative' = dissipative
          /\ hfss' = hfss]_vars

\* disconnect() was refused on a session that holds a project but no setup
C3_Witness ==
    /\ last.op = "disconnect"
    /\ last.exc = AssertionError
    /\ before.project # Null
    /\ before.setup = Null
    /\ pinfo = before

\* C4: a connect() whose connect_project() yields a null project makes no call on
\* a design or setup handle, leaves design, design_name, setup and setup_name as
\* they were, does not raise, and leaves check_connected() false.
C4_NullProjectSkips ==
    (last.op = "connect" /\ pinfo.project = Null) =>
        /\ Made(DesignCalls) = << >>
        /\ pinfo.design = before.design
        /\ pinfo.design_name = before.design_name
        /\ pinfo.setup = before.setup
        /\ pinfo.setup_name = before.setup_name
        /\ last.exc = NoExc
        /\ ~check_connected(pinfo)

\* the design name connect_design(design_name) works with: its argument, or the
\* stored design_name when the argument is None
NameInEffect == IF last.arg[1] # Null THEN last.arg[1] ELSE before.design_name

\* connect_design() ran on a project with designs, none of which the name in
\* effect resolves to
NamedDesignMissing ==
    /\ last.op = "connect_design"
    /\ before.project # Null
    /\ get_designs(hfss) # {}
    /\ NameInEffect # Null
    /\ get_design(hfss, NameInEffect) = Null

C6_SoftDesign ==
    (last.op = "connect_design" /\ before.project # Null) =>
        /\ get_designs(hfss) = {} => (last.exc = NoExc /\ pinfo.design = Null)
        /\ (get_designs(hfss) # {} /\ NameInEffect = Null /\ get_active_design(hfss) = Null) =>
              (last.exc = NoExc /\ pinfo.design = Null /\ pinfo.design_name = Null)

\* case (a): connect_design("dx") on a project without designs returned normally
C6_Witness ==
    /\ last.op = "connect_design"
    /\ before.project # Null
    /\ get_designs(hfss) = {}
    /\ NameInEffect = "dx"
    /\ last.exc = NoExc
    /\ pinfo.design = Null

\* case (b): connect_design() with no name found no active design, having held a
\* design before
C6_WitnessNoActive ==
    /\ last.op = "connect_design"
    /\ before.project # Null
    /\ get_designs(hfss) # {}
    /\ NameInEffect = Null
    /\ get_active_design(hfss) = Null
    /\ last.exc = NoExc
    /\ pinfo.design = Null

RecognizedTypes == {"Eigenmode", "DrivenModal", "DrivenTerminal", "Q3D"}

\* the default-setup creation each recognized solution type is to be given
MatchingCreation(solution_type) ==
    CASE solution_type = "Eigenmode" -> "design.create_em_setup"
      [] solution_type = "DrivenModal" -> "design.create_dm_setup"
      [] solution_type = "DrivenTerminal" -> "design.create_dt_setup"
      [] solution_type = "Q3D" -> "design.create_q3d_setup"

\* C7: connect_setup() on a design without setups whose solution type is one of the
\* four recognized kinds makes exactly one default-setup creation call, the one
\* matching the solution type, and returns with setup_name equal to the name of
\* the setup the design gained, whatever setup_name held before.
C7_DefaultSetupCreated ==
    [][(/\ last'.op = "connect_setup"
        /\ pinfo.design # Null
        /\ Len(get_setup_names(hfss, pinfo.design)) = 0
        /\ hfss.soltype[pinfo.design] \in RecognizedTypes) =>
          /\ Made(CreationCalls)' = <<MatchingCreation(hfss.soltype[pinfo.design])>>
          /\ last'.exc = NoExc
          /\ Len(get_setup_names(hfss', pinfo.design)) = 1
          /\ pinfo'.setup_name = HandleName(get_setup_names(hfss', pinfo.design)[1])
          /\ pinfo'.setup = get_setup_names(hfss', pinfo.design)[1]]_vars

\* connect_setup() created the driven-terminal default on D1 and replaced the
\* stored setup name sx by the created setup's name
C7_Witness ==
    /\ last.op = "connect_setup"
    /\ before.design = "D1"
    /\ before.setup_name = "sx"
    /\ Made(CreationCalls) = <<"design.create_dt_setup">>
    /\ get_setup_names(hfss, "D1") = <<DefaultSetupName>>
    /\ pinfo.setup_name = DefaultSetupName

\* C8: connect_setup() on a design without setups whose solution type is none of
\* the four recognized kinds creates no default setup, leaves the setup handle
\* null and returns without raising.
C8_UnrecognizedTypeSoft ==
    (/\ last.op = "connect_setup"
     /\ before.design # Null
     /\ Len(get_setup_names(hfss, before.design)) = 0
     /\ hfss.soltype[before.design] \notin RecognizedTypes) =>
        /\ Made(CreationCalls) = << >>
        /\ pinfo.setup = Null
        /\ last.exc = NoExc

\* C9: get_setup(name) with a non-null name for which the design returns a null
\* setup does not raise and returns null.
C9_GetSetupReturnsNull ==
    (/\ last.op = "get_setup"
     /\ last.arg[1] # Null
     /\ before.design # Null
     /\ design_get_setup(hfss, before.design, last.arg[1]) = Null
     /\ last.exc.type # "EnvironmentError") =>
        /\ last.exc = NoExc
        /\ last.ret = Null

\* a collection (list or tuple) whose members are all strings
IsStringCollection(v) ==
    /\ v.kind \in {"list", "tuple"}
    /\ \A i \in 1..Len(v.items) : v.items[i] # NonStr

\* C10: an item-style write is rejected with an error when the key is neither a
\* slot name nor the back-reference key, or when the value offered to a slot is
\* neither null nor a collection of strings; and every rejected write, whatever
\* rejected it, leaves the four slots and the back-reference as they were.
C10_RejectedWrites ==
    [][last'.op = "setitem" =>
          /\ last'.arg[1] \notin DissOpt \cup {"pinfo"} => last'.exc # NoExc
          /\ (/\ last'.arg[1] \in DissOpt
              /\ last'.val # NoneV
              /\ ~IsStringCollection(last'.val)) => last'.exc # NoExc
          /\ last'.exc # NoExc => dissipative' = dissipative]_vars

\* the existence check rejected ['o1', 'ox'] for seams, which keeps ['o1']
C10_Witness ==
    /\ last.op = "setitem"
    /\ last.arg = <<"seams">>
    /\ last.val = ListV(<<"o1", "ox">>)
    /\ last.exc.type = "ValueError"
    /\ last.exc.names = {"ox"}
    /\ dissipative.seams = ListV(<<"o1">>)
    /\ dissipative.pinfo = "self"

\* pinfo.dissipative[key], read in the current state
ItemRead(key) == Dissipative_getitem(Start, key).ret

\* every member of a collection is in the object-name universe of the design
AllExist(v) ==
    \A i \in 1..Len(v.items) : InSeq(v.items[i], get_all_object_names(hfss))

\* C11: while the manager has a non-null design, an item-style write of v to a
\* slot is accepted exactly when v is null or a collection of strings that are all
\* in the object-name universe, and an accepted write is read back by item
\* access; while it has no design, no existence check applies and every null or
\* string-collection value is accepted.
C11_ExistenceGate ==
    (last.op = "setitem" /\ last.arg[1] \in DissOpt) =>
        /\ pinfo.design # Null =>
              /\ last.exc = NoExc <=>
                    (last.val = NoneV \/ (IsStringCollection(last.val) /\ AllExist(last.val)))
              /\ last.exc = NoExc => ItemRead(last.arg[1]) = last.val
        /\ pinfo.design = Null =>
              ((last.val = NoneV \/ IsStringCollection(last.val)) => last.exc = NoExc)

\* C12: an attribute-style assignment to a slot is accepted or rejected exactly as
\* the item-style write of the same key and value in the same state, leaves the
\* slot contents that write leaves (as item access reads them) and logs a
\* deprecation warning; an attribute-style assignment to a name that is neither a
\* slot nor the back-reference raises and changes nothing.
C12_AttributePathEquivalent ==
    [][last'.op = "setattr" =>
          LET item == Dissipative_setitem(Start, last'.arg[1], last'.val)
          IN  /\ last'.exc = item.exc
              /\ dissipative' = item.d
              /\ \A k \in DissOpt : ItemRead(k)' = item.d[k]
              /\ InSeq(DeprecationWarning, calls')
              /\ last'.arg[1] \notin DissOpt \cup {"pinfo"} =>
                    (last'.exc # NoExc /\ dissipative' = dissipative)]_vars

\* pinfo.dissipative.seams = ['o1'] on a connected, attached session was accepted
\* with a warning and is read back by item access
C12_Witness ==
    /\ last.op = "setattr"
    /\ last.arg = <<"seams">>
    /\ last.val = ListV(<<"o1">>)
    /\ last.exc = NoExc
    /\ dissipative.pinfo = "self"
    /\ pinfo.design # Null
    /\ ItemRead("seams") = ListV(<<"o1">>)
    /\ InSeq(DeprecationWarning, calls)

\* the checks of validate_junction_info in the order the claim gives them
CheckOrder == <<"Lj_variable", "rect", "line">>

\* the checks <<junction, field>> that fail in the current state
FailingChecks ==
    LET variable_universe == {get_all_variables_names(hfss)[i] :
                                  i \in 1..Len(get_all_variables_names(hfss))}
        object_universe == {get_all_object_names(hfss)[i] :
                                i \in 1..Len(get_all_object_names(hfss))}
    IN  {ck \in (1..Len(junctions)) \X (1..3) :
            junctions[ck[1]].data[CheckOrder[ck[2]]] \notin
                (IF ck[2] = 1 THEN variable_universe ELSE object_universe)}

\* C13: on a session that holds a project and a design, validate_junction_info()
\* returns normally if and only if every registered junction has its Lj_variable
\* in the variable-name universe and its rect and line in the object-name
\* universe; otherwise it raises for the first failing check (junctions in
\* registration order, within a junction Lj_variable, rect, line) and the error
\* names that junction and that field; the junction table is unchanged either way.
C13_ValidateJunctions ==
    [][(last'.op = "validate_junction_info" /\ pinfo.project # Null /\ pinfo.design # Null) =>
          /\ last'.exc = NoExc <=> FailingChecks = {}
          /\ FailingChecks # {} =>
                LET first == CHOOSE ck \in FailingChecks : \A other \in FailingChecks :
                                 \/ ck[1] < other[1]
                                 \/ ck[1] = other[1] /\ ck[2] <= other[2]
                IN  /\ last'.exc.type = "AssertionError"
                    /\ last'.exc.names = {junctions[first[1]].name, CheckOrder[first[2]],
                                          junctions[first[1]].data[CheckOrder[first[2]]]}
          /\ junctions' = junctions]_vars

\* two junctions are registered, the first passes, the second has a rect that is
\* not an object and a line that is not one either: the error names the second
\* junction and rect
C13_Witness ==
    /\ last.op = "validate_junction_info"
    /\ pinfo.project # Null
    /\ pinfo.design # Null
    /\ Len(junctions) = 2
    /\ junctions[1].data = [Lj_variable |-> "$Lj", rect |-> "o1", line |-> "o2"]
    /\ junctions[2].data = [Lj_variable |-> "Lj1", rect |-> "ox", line |-> "ox"]
    /\ hfss.objects = Objects
    /\ hfss.variables = Variables
    /\ last.exc.names = {junctions[2].name, "rect", "ox"}

\* validate_junction_info() returned normally with two junctions registered
C13_WitnessValid ==
    /\ last.op = "validate_junction_info"
    /\ Len(junctions) = 2
    /\ last.exc = NoExc

ConnectionOps ==
    {"connect", "connect_project", "connect_design", "connect_setup", "get_setup", "disconnect"}

\* C14: every connect(), connect_project(), connect_design(), connect_setup(),
\* get_setup() and disconnect() call, whether it returns or raises, leaves the
\* junction table, the port table and the four dissipative slots as they were.
C14_MetadataPersists ==
    [][last'.op \in ConnectionOps =>
          /\ junctions' = junctions
          /\ ports' = ports
          /\ \A opt \in DissOpt : dissipative'[opt] = dissipative[opt]]_vars

\* connect() on a connected session that carries a junction, a port and seams
\* returned connected, and the metadata is there
C14_Witness ==
    /\ last.op = "connect"
    /\ last.exc = NoExc
    /\ check_connected(pinfo)
    /\ Made(ReleaseCalls) = << >>
    /\ check_connected(before)
    /\ Len(junctions) = 1
    /\ Len(ports) = 1
    /\ dissipative["seams"] = ListV(<<"o1">>)

\* a call that raised on a session with metadata
C14_WitnessRaised ==
    /\ last.op \in ConnectionOps
    /\ last.exc # NoExc
    /\ Len(junctions) = 1
    /\ Len(ports) = 1
    /\ dissipative["seams"] = ListV(<<"o1">>)

ReleaseOrder == <<"project.release", "desktop.release", "app.release", "ansys.release">>

\* connect() is called where its connect_project() gets a project with designs
\* and the stored design name resolves to none of them
DesignRaisesInConnect ==
    /\ load_ansys_project(hfss, pinfo.project_name, pinfo.project_path).project # Null
    /\ get_designs(hfss) # {}
    /\ pinfo.design_name # Null
    /\ get_design(hfss, pinfo.design_name) = Null

\* C16: when connect_design() raises inside connect(), connect() does not
\* propagate that error; it releases the project, the desktop, the app and the
\* process-wide binding, each exactly once and in that order, and only after the
\* four releases calls connect_setup().
C16_TeardownThenSetup ==
    [][(last'.op = "connect" /\ DesignRaisesInConnect) =>
          /\ last'.exc # DesignError
          /\ Made(ReleaseCalls)' = ReleaseOrder
          /\ Len(calls') >= 4
          /\ SubSeq(calls', 1, 4) = ReleaseOrder
          /\ pinfo'.design = Null => (pinfo'.setup = Null /\ pinfo'.setup_name = Null)
          /\ pinfo'.design # Null =>
                (Len(calls') >= 5 /\ calls'[5] = "design.get_setup_names")]_vars

\* connect() with the stored design name dx on an open project with designs
\* released the four handles and returned normally without a design or setup
C16_Witness ==
    /\ last.op = "connect"
    /\ before.design_name = "dx"
    /\ get_designs(hfss) # {}
    /\ calls = ReleaseOrder
    /\ last.exc = NoExc
    /\ pinfo.design = Null
    /\ pinfo.setup = Null

\* the same on a session that held a design: connect_setup() ran on it after the
\* releases
C16_WitnessStaleDesign ==
    /\ last.op = "connect"
    /\ before.design_name = "dx"
    /\ Len(calls) > 4
    /\ SubSeq(calls, 1, 4) = ReleaseOrder
    /\ calls[5] = "design.get_setup_names"

\* C17: a disconnect() whose precondition holds releases the project, the
\* desktop, the app and the process-wide binding, each exactly once and in that
\* order, and makes no other call (it releases neither the design nor the setup).
C17_DisconnectReleases ==
    [][(last'.op = "disconnect" /\ check_connected(pinfo)) =>
          /\ last'.exc = NoExc
          /\ calls' = ReleaseOrder]_vars

\* disconnect() ran on a connected session
C17_Witness ==
    /\ last.op = "disconnect"
    /\ check_connected(before)
    /\ last.exc = NoExc
    /\ Len(calls) = 4

\* C18: connect_setup() on a non-null design that reports at least one setup
\* creates no default setup; the name it resolves is the first name of the tool's
\* list when setup_name is null and the stored setup_name otherwise, and on
\* normal return the setup handle is the design's setup of that name and
\* setup_name equals that handle's name.
C18_ExistingSetupAdopted ==
    [][(/\ last'.op = "connect_setup"
        /\ pinfo.design # Null
        /\ Len(get_setup_names(hfss, pinfo.design)) > 0) =>
          LET wanted == IF pinfo.setup_name = Null
                        THEN get_setup_names(hfss, pinfo.design)[1]
                        ELSE pinfo.setup_name
          IN  /\ Made(CreationCalls)' = << >>
              /\ hfss'.setups = hfss.setups
              /\ InSeq("design.get_setup", calls')
              /\ last'.exc = NoExc =>
                    /\ pinfo'.setup # Null
                    /\ pinfo'.setup = design_get_setup(hfss, pinfo.design, wanted)
                    /\ pinfo'.setup_name = HandleName(pinfo'.setup)]_vars

\* connect_setup() with no stored name adopted S2, the first of the two setups
\* the design lists
C18_Witness ==
    /\ last.op = "connect_setup"
    /\ before.design # Null
    /\ before.setup_name = Null
    /\ Len(get_setup_names(hfss, before.design)) = NumSetups
    /\ last.exc = NoExc
    /\ pinfo.setup = get_setup_names(hfss, before.design)[1]
    /\ pinfo.setup_name = HandleName(pinfo.setup)

\* connect_setup() kept the stored name s1 and resolved it
C18_WitnessStored ==
    /\ last.op = "connect_setup"
    /\ before.setup_name = "s1"
    /\ last.exc = NoExc
    /\ pinfo.setup_name = "S1"
    /\ get_setup_names(hfss, before.design)[1] # "S1"

\* C19: after a connect() that returns normally the setup handle is non-null
\* exactly when the design handle is; with no design setup_name is null, with a
\* design setup_name is the name of the held setup.
C19_SetupFollowsDesign ==
    (last.op = "connect" /\ last.exc = NoExc) =>
        /\ pinfo.setup # Null <=> pinfo.design # Null
        /\ pinfo.design = Null => pinfo.setup_name = Null
        /\ pinfo.design # Null => pinfo.setup_name = HandleName(pinfo.setup)

\* connect() returned normally without a design on a session that held a setup
C19_Witness ==
    /\ last.op = "connect"
    /\ last.exc = NoExc
    /\ pinfo.design = Null
    /\ before.setup # Null
    /\ pinfo.setup = Null

\* C20: a connect() that released the project, the desktop, the app and the
\* process-wide binding because connect_design() raised leaves check_connected()
\* false when it returns.
C20_TeardownNotConnected ==
    (last.op = "connect" /\ Made(ReleaseCalls) # << >>) => ~check_connected(pinfo)

====
